---- MODULE Spec2Model ----
(***************************************************************************)
(* Model of RootsploixLicense (src/rootsploix_license.py): the license     *)
(* gate that classifies a key as demo or professional and checks a usage   *)
(* snapshot against the demo limits.                                       *)
(*                                                                         *)
(* A Python str is a sequence of one-character strings.  A Python dict is  *)
(* a record (a function on its keys).  A Python value passed as            *)
(* license_key is a record [type, chars].  The result of evaluating a      *)
(* Python call is a record [kind |-> "return", value |-> v] or             *)
(* [kind |-> "raise", exc |-> str(e)].                                     *)
(***************************************************************************)
EXTENDS Integers, Sequences, FiniteSets, TLC

VARIABLES
    self,        \* the RootsploixLicense object: its attributes
    call,        \* the most recent API call: [op, arg, out]
    info,        \* the dict of the most recent successful validate_license,
                 \* as the caller holds it: [shared, dict]
    watch_key,   \* history: the key whose first validation is remembered
    watch_out,   \* history: what the first validate_license(watch_key) returned
    watch_now,   \* history: what the clock read at that call
    writes       \* how many times the caller has written into info

vars == <<self, call, info, watch_key, watch_out, watch_now, writes>>

-----------------------------------------------------------------------------
(* Bounds of the model *)

\* keys are built with up to MaxFields dash-separated fields after the first
MaxFields == 5
\* usage counters range within Delta of each demo limit
Delta == 2
\* int(time.time()) reads a value in 0..MaxClock
MaxClock == 1
\* how many times a caller writes into a dict validate_license gave it
MaxWrites == 1

-----------------------------------------------------------------------------
(* Python str operations, on sequences of characters *)

\* the capital of each lower-case letter
Capital ==
    [ a |-> "A", b |-> "B", c |-> "C", d |-> "D", e |-> "E", f |-> "F", g |-> "G",
      h |-> "H", i |-> "I", j |-> "J", k |-> "K", l |-> "L", m |-> "M", n |-> "N",
      o |-> "O", p |-> "P", q |-> "Q", r |-> "R", s |-> "S", t |-> "T", u |-> "U",
      v |-> "V", w |-> "W", x |-> "X", y |-> "Y", z |-> "Z" ]
LowerCase == DOMAIN Capital

\* str.upper() on one character: a lower-case letter maps to its capital
upper_char(c) == IF c \in LowerCase THEN Capital[c] ELSE c

\* str.upper()
upper(s) == [i \in 1..Len(s) |-> upper_char(s[i])]

\* str.startswith(prefix)
startswith(s, prefix) ==
    /\ Len(s) >= Len(prefix)
    /\ SubSeq(s, 1, Len(prefix)) = prefix

\* str.split(sep) for a one-character sep: one more field than separators,
\* field n running from after separator n-1 to before separator n
split(s, sep) ==
    LET at == {i \in 1..Len(s) : s[i] = sep}
        nth(n) == IF n = 0 THEN 0
                  ELSE IF n > Cardinality(at) THEN Len(s) + 1
                  ELSE CHOOSE p \in at : Cardinality({q \in at : q < p}) = n - 1
    IN  [n \in 1..(Cardinality(at) + 1) |-> SubSeq(s, nth(n - 1) + 1, nth(n) - 1)]

\* sep.join(parts)
RECURSIVE join(_, _)
join(parts, sep) ==
    IF Len(parts) = 0 THEN <<>>
    ELSE IF Len(parts) = 1 THEN parts[1]
    ELSE parts[1] \o <<sep>> \o join(Tail(parts), sep)

\* the number of occurrences of character c in s
count(s, c) == Cardinality({i \in 1..Len(s) : s[i] = c})

-----------------------------------------------------------------------------
(* Python values passed as license_key *)

Str(chars) == [type |-> "str", chars |-> chars]
None == [type |-> "NoneType", chars |-> <<>>]
Int42 == [type |-> "int", chars |-> <<>>]
Bytes(chars) == [type |-> "bytes", chars |-> chars]

DEMO == <<"D","E","M","O">>
RXPRO == <<"R","X","P","R","O">>
RXPRO_DASH == <<"R","X","P","R","O","-">>

\* the text of field i of a generated key, cut to length n
Fillers == << <<"A","B","C","1","2","3">>, <<"d","e","f","3","4","5">>,
             <<"G","H","I","5","6","7">>, <<"J","K"," ","7","8","_">> >>
field(i, n) == SubSeq(Fillers[((i - 1) % Len(Fillers)) + 1], 1, n)

\* n fields of 5 characters each
good_fields(n) == [i \in 1..n |-> field(i, 5)]

\* lengths a malformed field takes
OddLens == {0, 4, 6}

\* n fields, all of 5 characters except at most one
field_lists(n) ==
    {good_fields(n)} \cup
    {[good_fields(n) EXCEPT ![i] = field(i, l)] : i \in 1..n, l \in OddLens}

\* first fields other than "RXPRO"
OtherFirsts == { <<"r","x","p","r","o">>, <<"X","P","R","O">>,
                 <<"R","X","P","R","O","X">>, <<>> }

\* every spelling of "demo" in upper and lower case
DemoSpellings ==
    {[i \in 1..4 |-> IF i \in low THEN CHOOSE c \in LowerCase : Capital[c] = DEMO[i]
                                   ELSE DEMO[i]] : low \in SUBSET (1..4)}

\* strings close to the demo literal
NearDemo == { <<>>, <<"D","E","M">>, <<"D","E","M","O","S">>,
              <<"D","E","M","O"," ">>, <<" ","D","E","M","O">> }

\* keys whose first field is "RXPRO"
RxproKeys ==
    UNION {{join(<<RXPRO>> \o fs, "-") : fs \in field_lists(n)} : n \in 0..MaxFields}

\* keys with another first field and well-formed fields after it
OtherKeys ==
    {join(<<first>> \o good_fields(n), "-") : first \in OtherFirsts, n \in 0..MaxFields}

\* other texts of 5 characters: no character set is required of a field
FiveChars == { <<"R","X","P","R","O">>, <<"d","e","m","o"," ">> }

\* keys of the professional format with every choice of such fields
FormatKeys == {join(<<RXPRO>> \o fs, "-") : fs \in [1..4 -> FiveChars]}

\* the str values passed as license_key
KeyStrings == DemoSpellings \cup NearDemo \cup RxproKeys \cup OtherKeys \cup FormatKeys

\* the documented example key RXPRO-ABC12-def34-GHI56-JK 78
ExampleKey == join(<<RXPRO>> \o good_fields(4), "-")

\* values passed as license_key that are not str
NonStrings == {None, Int42, Bytes(DEMO), Bytes(ExampleKey)}

\* every value passed as license_key
Keys == {Str(s) : s \in KeyStrings} \cup NonStrings

\* the keys whose first validation is remembered
WatchKeys ==
    {Str(DEMO), Str(<<"d","e","M","o">>), Str(ExampleKey), Str(<<>>),
     Str(join(<<RXPRO>> \o good_fields(3), "-")), None, Bytes(ExampleKey)}

-----------------------------------------------------------------------------
(* Evaluation results *)

Return(v) == [kind |-> "return", value |-> v]
Raise(text) == [kind |-> "raise", exc |-> text]

\* the value of the attribute lookup license_key.<name> on a non-str, non-bytes
no_attribute(license_key, name) ==
    Raise("'" \o license_key.type \o "' object has no attribute '" \o name \o "'")

-----------------------------------------------------------------------------
(* RootsploixLicense *)

\* __init__(self, tool_name, version)
__init__(tool_name, version) ==
    [ tool_name |-> tool_name,
      version |-> version,
      license_server |-> "https://api.rootsploix.com/license",
      demo_limits |-> [ max_scans |-> 10,
                        max_targets |-> 1,
                        advanced_features |-> FALSE,
                        reporting |-> FALSE,
                        threading |-> 1 ] ]

\* a format test that accepts a key when any field after the first has length 5
_validate_key_format_any(license_key) ==
    IF license_key.type # "str"
    THEN no_attribute(license_key, "startswith")
    ELSE IF startswith(license_key.chars, RXPRO_DASH)
    THEN LET parts == split(license_key.chars, "-")
         IN  Return(Len(parts) = 5 /\ \E i \in 2..Len(parts) : Len(parts[i]) = 5)
    ELSE Return(FALSE)

\* a format test without the prefix test
_validate_key_format_no_prefix(license_key) ==
    IF license_key.type # "str"
    THEN no_attribute(license_key, "split")
    ELSE LET parts == split(license_key.chars, "-")
         IN  Return(Len(parts) = 5 /\ \A i \in 2..Len(parts) : Len(parts[i]) = 5)

\* a format test whose prefix is 'RXPRO', without the dash
_validate_key_format_short_prefix(license_key) ==
    IF license_key.type # "str"
    THEN no_attribute(license_key, "startswith")
    ELSE IF startswith(license_key.chars, RXPRO)
    THEN LET parts == split(license_key.chars, "-")
         IN  Return(Len(parts) = 5 /\ \A i \in 2..Len(parts) : Len(parts[i]) = 5)
    ELSE Return(FALSE)

\* _validate_key_format(self, license_key)
_validate_key_format(license_key) ==
    IF license_key.type = "bytes"
    THEN Raise("startswith first arg must be bytes or a tuple of bytes, not str")
    ELSE IF license_key.type # "str"
    THEN no_attribute(license_key, "startswith")
    ELSE IF startswith(license_key.chars, RXPRO_DASH)
    THEN LET parts == split(license_key.chars, "-")
         IN  Return(Len(parts) = 5 /\ \A i \in 2..Len(parts) : Len(parts[i]) = 5)
    ELSE Return(FALSE)

\* a professional dict with a bounded thread count
professional_info_one_thread ==
    [ status |-> "professional",
      features |-> [ max_scans |-> -1,
                     max_targets |-> -1,
                     advanced_features |-> TRUE,
                     reporting |-> TRUE,
                     threading |-> 1 ],
      expires |-> "None" ]

\* the dict validate_license returns for a professional key
professional_info ==
    [ status |-> "professional",
      features |-> [ max_scans |-> -1,
                     max_targets |-> -1,
                     advanced_features |-> TRUE,
                     reporting |-> TRUE,
                     threading |-> -1 ],
      expires |-> "None" ]

\* the dict validate_license returns for the demo key; its 'features' entry
\* is the object self.demo_limits itself, not a copy
demo_info(obj) ==
    [ status |-> "demo",
      features |-> obj.demo_limits,
      expires |-> "None" ]

\* the request payload validate_license builds and never sends
payload(obj, license_key, now) ==
    [ tool |-> obj.tool_name,
      license |-> license_key,
      version |-> obj.version,
      timestamp |-> now ]

\* a spelling-sensitive demo test
is_demo_exact(license_key) ==
    license_key.type = "str" /\ license_key.chars = DEMO

\* license_key.upper() == "DEMO", for a str or bytes license_key; bytes
\* never equal a str
is_demo(license_key) ==
    license_key.type = "str" /\ upper(license_key.chars) = DEMO

\* the body of validate_license's try block; now is int(time.time())
validate_license_try(obj, license_key, now) ==
    IF license_key.type \notin {"str", "bytes"}
    THEN no_attribute(license_key, "upper")
    ELSE IF is_demo(license_key)
    THEN Return(<<TRUE, demo_info(obj)>>)
    ELSE LET request == payload(obj, license_key, now)
             well_formed == _validate_key_format(license_key)
         IN  IF well_formed.kind = "raise"
             THEN well_formed
             ELSE IF well_formed.value
             THEN Return(<<TRUE, professional_info>>)
             ELSE Return(<<FALSE, [error |-> "Invalid license key format"]>>)

\* validate_license without its except clause
validate_license_unguarded(obj, license_key, now) ==
    validate_license_try(obj, license_key, now)

\* validate_license putting the payload's timestamp into the dict it returns
validate_license_stamped(obj, license_key, now) ==
    LET body == validate_license_try(obj, license_key, now)
    IN  IF body.kind = "raise"
        THEN Return(<<FALSE, [error |-> "License validation failed: " \o body.exc]>>)
        ELSE IF body.value[1]
        THEN Return(<<TRUE, [body.value[2] EXCEPT
                             !.expires = ToString(payload(obj, license_key, now).timestamp)]>>)
        ELSE body

\* validate_license(self, license_key): the try block and its except clause
validate_license(obj, license_key, now) ==
    LET body == validate_license_try(obj, license_key, now)
    IN  IF body.kind = "raise"
        THEN Return(<<FALSE, [error |-> "License validation failed: " \o body.exc]>>)
        ELSE body

\* dict.get(key, default)
get(d, key, default) == IF key \in DOMAIN d THEN d[key] ELSE default

\* check_demo_limits with a strict scan comparison
check_demo_limits_strict(obj, current_usage) ==
    IF get(current_usage, "scan_count", 0) > obj.demo_limits.max_scans
    THEN Return(<<FALSE, "Demo limit reached: "
                          \o ToString(obj.demo_limits.max_scans)
                          \o " scans maximum">>)
    ELSE IF get(current_usage, "target_count", 0) > obj.demo_limits.max_targets
    THEN Return(<<FALSE, "Demo limit: "
                          \o ToString(obj.demo_limits.max_targets)
                          \o " target maximum">>)
    ELSE Return(<<TRUE, "Within demo limits">>)

\* check_demo_limits(self, current_usage)
check_demo_limits(obj, current_usage) ==
    IF get(current_usage, "scan_count", 0) >= obj.demo_limits.max_scans
    THEN Return(<<FALSE, "Demo limit reached: "
                          \o ToString(obj.demo_limits.max_scans)
                          \o " scans maximum">>)
    ELSE IF get(current_usage, "target_count", 0) > obj.demo_limits.max_targets
    THEN Return(<<FALSE, "Demo limit: "
                          \o ToString(obj.demo_limits.max_targets)
                          \o " target maximum">>)
    ELSE Return(<<TRUE, "Within demo limits">>)

-----------------------------------------------------------------------------
(* The callers of the gate *)

\* the gate of the usage example: RootsploixLicense("TestTool")
TestTool == __init__("TestTool", "2.1.0")

\* the counters a usage snapshot carries
ScanCounts == {0, 100000} \cup {10 + d : d \in (-Delta)..Delta}
TargetCounts == {0, 100000} \cup {1 + d : d \in (-Delta)..Delta}

\* the usage dicts passed as current_usage; either counter may be missing
Usages ==
    {[scan_count |-> s, target_count |-> t] : s \in ScanCounts, t \in TargetCounts}
    \cup {[scan_count |-> s] : s \in ScanCounts}
    \cup {[target_count |-> t] : t \in TargetCounts}
    \cup {[k \in {} |-> 0]}

NoCall == [op |-> "none"]
NoInfo == [shared |-> FALSE, dict |-> [status |-> "none"]]
NotYet == [kind |-> "none"]

\* whether validate_license returned (True, info)
is_valid(out) == out.kind = "return" /\ out.value[1]

\* whether the 'features' entry of a returned dict is the object
\* self.demo_limits: so it is for the demo dict, the professional dict's
\* features are a dict literal built by the call
shares_demo_limits(d) == d.status = "demo"

\* the dict info as the caller reads it
held(i, obj) ==
    IF i.shared THEN [i.dict EXCEPT !.features = obj.demo_limits] ELSE i.dict

Init ==
    /\ self = TestTool
    /\ call = NoCall
    /\ info = NoInfo
    /\ watch_key \in WatchKeys
    /\ watch_out = NotYet
    /\ watch_now = 0
    /\ writes = 0

\* is_valid, info = license_system.validate_license(license_key)
Validate(license_key, now) ==
    \E out \in {validate_license(self, license_key, now)} :
        /\ call' = [op |-> "validate_license", arg |-> license_key, out |-> out,
                    now |-> now]
        /\ info' = IF is_valid(out)
                   THEN [shared |-> shares_demo_limits(out.value[2]),
                         dict |-> out.value[2]]
                   ELSE info
        /\ watch_out' = IF license_key = watch_key /\ watch_out = NotYet
                        THEN out ELSE watch_out
        /\ watch_now' = IF license_key = watch_key /\ watch_out = NotYet
                        THEN now ELSE watch_now
        /\ UNCHANGED <<self, watch_key, writes>>

\* within, message = license_system.check_demo_limits(current_usage), called
\* by a caller that holds the entitlement info
CheckUsage(current_usage) ==
    /\ call' = [op |-> "check_demo_limits", arg |-> current_usage,
                out |-> check_demo_limits(self, current_usage)]
    /\ UNCHANGED <<self, info, watch_key, watch_out, watch_now, writes>>

\* the numeric entries of a features dict and the values a caller writes
WriteFields == {"max_scans", "max_targets"}
WriteValues == {-1, 100}

\* info['features'][name] = value, by the caller holding info; when the
\* features dict is self.demo_limits the write is a write to the gate
CallerWrite(name, value) ==
    /\ info # NoInfo
    /\ writes < MaxWrites
    /\ writes' = writes + 1
    /\ info' = [info EXCEPT !.dict.features[name] = value]
    /\ self' = IF info.shared
               THEN [self EXCEPT !.demo_limits[name] = value]
               ELSE self
    /\ UNCHANGED <<call, watch_key, watch_out, watch_now>>

ValidateStep == \E k \in Keys, now \in 0..MaxClock : Validate(k, now)
CheckUsageStep == \E u \in Usages : CheckUsage(u)
CallerWriteStep == \E name \in WriteFields, value \in WriteValues : CallerWrite(name, value)

\* the gate under calls of its two operations
Next == ValidateStep \/ CheckUsageStep
Spec == Init /\ [][Next]_vars

\* the gate under calls of its two operations and a caller that writes into
\* the dicts it was given
InitCaller == Init /\ watch_key = Str(DEMO)
NextCaller == ValidateStep \/ CheckUsageStep \/ CallerWriteStep
SpecCaller == InitCaller /\ [][NextCaller]_vars

-----------------------------------------------------------------------------
(* The properties *)

\* the last call was validate_license on a str
ValidatedStr == call.op = "validate_license" /\ call.arg.type = "str"

\* a key that equals "DEMO" compared case-insensitively
IsDemoLiteral(s) == s \in DemoSpellings

\* the key begins with "RXPRO-" and splits on '-' into exactly 5 fields, the
\* 4 after the first of length exactly 5: there are exactly 4 dashes, and
\* from each dash it is 5 characters to the next dash or to the end
IsWellFormed(s) ==
    LET dashes == {i \in 1..Len(s) : s[i] = "-"}
        after(p) == IF \E q \in dashes : q > p
                    THEN CHOOSE q \in dashes : q > p /\ \A r \in dashes : r > p => q <= r
                    ELSE Len(s) + 1
    IN  /\ Len(s) >= 6
        /\ \A i \in 1..6 : s[i] = RXPRO_DASH[i]
        /\ Cardinality(dashes) = 4
        /\ \A p \in dashes : after(p) - p = 6

\* the Professional entitlement: every limit unlimited, both flags set, no expiry
Professional ==
    [ status |-> "professional",
      features |-> [ max_scans |-> -1, max_targets |-> -1,
                     advanced_features |-> TRUE, reporting |-> TRUE,
                     threading |-> -1 ],
      expires |-> "None" ]

\* the Demo entitlement: the demo defaults, no expiry
Demo ==
    [ status |-> "demo",
      features |-> [ max_scans |-> 10, max_targets |-> 1,
                     advanced_features |-> FALSE, reporting |-> FALSE,
                     threading |-> 1 ],
      expires |-> "None" ]

\* C1: for every key string that is not the demo literal, validate_license
\* returns Valid, and then with the Professional entitlement, if and only if
\* the key begins with "RXPRO-" and splits on '-' into exactly 5 fields of
\* which the 4 after the first have length exactly 5.
C1_ProfessionalIffWellFormed ==
    (ValidatedStr /\ ~IsDemoLiteral(call.arg.chars)) =>
        /\ call.out.kind = "return"
        /\ call.out.value[1] <=> IsWellFormed(call.arg.chars)
        /\ call.out.value[1] => call.out.value[2] = Professional

C1_Witness ==
    /\ ValidatedStr
    /\ call.arg.chars = ExampleKey
    /\ call.out = Return(<<TRUE, Professional>>)

\* C2: for every key that is a case variant of "DEMO", validate_license
\* returns Valid with the Demo entitlement: the demo defaults (10 scans,
\* 1 target, no advanced features, no reporting, 1 thread) and no expiry.
C2_DemoSpellingsGiveDemo ==
    (ValidatedStr /\ IsDemoLiteral(call.arg.chars)) =>
        call.out = Return(<<TRUE, Demo>>)

C2_Witness ==
    /\ ValidatedStr
    /\ call.arg.chars = <<"D","e","M","o">>
    /\ call.out = Return(<<TRUE, Demo>>)

\* the caller checked usage while holding a Professional entitlement
CheckedAsProfessional ==
    /\ call.op = "check_demo_limits"
    /\ info.dict.status = "professional"

\* C3 (as claimed): a usage check made with a Professional entitlement
\* (max_scans = -1, max_targets = -1) is within limits for every usage snapshot.
C3_ProfessionalNeverLimited ==
    CheckedAsProfessional => call.out.value[1]

\* the counters check_demo_limits reads: a missing counter counts as 0
scanCount == IF "scan_count" \in DOMAIN call.arg THEN call.arg.scan_count ELSE 0
targetCount == IF "target_count" \in DOMAIN call.arg THEN call.arg.target_count ELSE 0

\* the caller checked usage while holding the Demo entitlement
CheckedAsDemo ==
    /\ call.op = "check_demo_limits"
    /\ info.dict.status = "demo"

\* C4: for the Demo entitlement and every usage snapshot the check returns
\* (False, "Demo limit reached: 10 scans maximum") when scanCount >= 10,
\* otherwise (False, "Demo limit: 1 target maximum") when targetCount > 1,
\* otherwise (True, "Within demo limits").
C4_DemoLimits ==
    CheckedAsDemo =>
        call.out =
            IF scanCount >= 10
            THEN Return(<<FALSE, "Demo limit reached: 10 scans maximum">>)
            ELSE IF targetCount > 1
            THEN Return(<<FALSE, "Demo limit: 1 target maximum">>)
            ELSE Return(<<TRUE, "Within demo limits">>)

\* both limits violated at once, at the inclusive scan boundary
C4_Witness ==
    /\ CheckedAsDemo
    /\ call.arg = [scan_count |-> 10, target_count |-> 2]
    /\ call.out = Return(<<FALSE, "Demo limit reached: 10 scans maximum">>)

\* the descriptions of the faults the runtime raises on a non-str key
FaultTexts ==
    { "'NoneType' object has no attribute 'upper'",
      "'int' object has no attribute 'upper'",
      "startswith first arg must be bytes or a tuple of bytes, not str" }

\* C5: validate_license never raises: on every input it returns a result,
\* and on an input on which the runtime faults (a value that is not a str)
\* the result is Invalid with a reason starting "License validation failed: ".
C5_NeverRaises ==
    call.op = "validate_license" =>
        /\ call.out.kind = "return"
        /\ call.arg.type # "str" =>
              /\ ~call.out.value[1]
              /\ \E text \in FaultTexts :
                    call.out.value[2] =
                        [error |-> "License validation failed: " \o text]

C5_Witness ==
    /\ call.op = "validate_license"
    /\ call.arg = None
    /\ call.out = Return(<<FALSE, [error |->
          "License validation failed: 'NoneType' object has no attribute 'upper'"]>>)

\* C6: for every str key that is neither the demo literal nor well-formed,
\* validate_license returns Invalid with exactly the reason
\* "Invalid license key format", and no entitlement.
C6_MalformedIsInvalid ==
    (ValidatedStr /\ ~IsDemoLiteral(call.arg.chars) /\ ~IsWellFormed(call.arg.chars)) =>
        call.out = Return(<<FALSE, [error |-> "Invalid license key format"]>>)

\* a lower-case "rxpro-" key of the right shape was rejected
C6_Witness ==
    /\ ValidatedStr
    /\ call.arg.chars = join(<< <<"r","x","p","r","o">> >> \o good_fields(4), "-")
    /\ call.out = Return(<<FALSE, [error |-> "Invalid license key format"]>>)

\* the tier invariant of an entitlement dict
TierInvariant(d) ==
    /\ d.status = "demo" =>
          /\ d.features.max_scans = 10 /\ d.features.max_scans >= 0
          /\ d.features.max_targets = 1 /\ d.features.max_targets >= 0
          /\ d.features.threading = 1 /\ d.features.threading >= 0
          /\ ~d.features.advanced_features
          /\ ~d.features.reporting
    /\ d.status = "professional" =>
          /\ d.features.max_scans = -1
          /\ d.features.max_targets = -1
          /\ d.features.threading = -1
          /\ d.features.advanced_features
          /\ d.features.reporting
    /\ d.status \in {"demo", "professional"}

\* C7: in every state reached by validate_license and check_demo_limits
\* calls on one gate, every Valid result validate_license has returned (the
\* latest, the remembered one, and the one the caller holds) satisfies the
\* tier invariant.
C7_TierInvariant ==
    /\ (call.op = "validate_license" /\ is_valid(call.out)) =>
          TierInvariant(call.out.value[2])
    /\ (watch_out # NotYet /\ is_valid(watch_out)) =>
          TierInvariant(watch_out.value[2])
    /\ info # NoInfo => TierInvariant(held(info, self))

\* a professional result is held after a later usage check
C7_Witness ==
    /\ call.op = "check_demo_limits"
    /\ info # NoInfo
    /\ held(info, self) = Professional
    /\ watch_out # NotYet /\ is_valid(watch_out)
    /\ watch_out.value[2].status = "demo"

\* C8 (as claimed): the tool identity and the demo defaults of the gate never
\* change, whatever the caller does with a dict validate_license returned.
C8_GateImmutable == self = TestTool

\* C9: two validate_license calls with the same key return structurally
\* equal results, whatever validate_license and check_demo_limits calls
\* happen in between and whatever the clock reads at each call.
C9_Idempotent ==
    (call.op = "validate_license" /\ call.arg = watch_key /\ watch_out # NotYet) =>
        call.out = watch_out

\* the remembered key was validated a second time, at another clock reading
C9_Witness ==
    /\ call.op = "validate_license"
    /\ call.arg = watch_key
    /\ watch_key = Str(ExampleKey)
    /\ watch_out = Return(<<TRUE, Professional>>)
    /\ call.now # watch_now

\* C10: every key accepted as Professional has its first field equal to
\* "RXPRO", exactly 4 '-' characters and total length exactly 29.
C10_AcceptedShape ==
    (call.op = "validate_license" /\ is_valid(call.out)
        /\ call.out.value[2].status = "professional") =>
        /\ call.arg.type = "str"
        /\ Len(call.arg.chars) = 29
        /\ count(call.arg.chars, "-") = 4
        /\ SubSeq(call.arg.chars, 1, 5) = RXPRO
        /\ call.arg.chars[6] = "-"

C10_Witness ==
    /\ call.op = "validate_license"
    /\ call.arg = Str(ExampleKey)
    /\ is_valid(call.out)
    /\ Len(call.arg.chars) = 29

====
